---- MODULE Spec2Model ----
(***************************************************************************)
(* The Redis service of receipt-verifier (src/services/Redis.ts): the      *)
(* receipt watermark tracker (setReceiptTTL, getReceiptValue), the balance *)
(* ledger (creditBalance, spendBalance) with the three Lua scripts they    *)
(* run on the store, and the proxy registry (createProxy, getPointer,      *)
(* deleteProxy).  A Lua script is one atomic step of the store; a method   *)
(* of the class that awaits two store commands is two steps, and other     *)
(* clients' commands and the passing of time may fall between them.        *)
(***************************************************************************)
EXTENDS Integers, FiniteSets, Sequences, TLC

(***************************************************************************)
(* Bounds and inputs                                                       *)
(***************************************************************************)

\* Long.MAX_VALUE (2^63 - 1), the largest number the store's INCRBY and
\* DECRBY accept, scaled down: every amount up to it and one past it occurs.
MAX_VALUE == 3

MIN_VALUE == 0 - MAX_VALUE - 1

\* config.receiptTTLSeconds (RECEIPT_TTL, 300 by default), in ticks of one second.
receiptTTLSeconds == 2

\* Concurrent clients of the store (requests in flight at the same time).
Procs == {"c1", "c2"}

BalanceIds == {"id", "other"}

\* The balance id of the specifications that work on one balance.
OneBalanceId == {"id"}

\* receipt.nonce.toString('base64')
Nonces == {"receipt", "other"}

\* The nonce of the specifications that work on one receipt.
OneNonce == {"receipt"}

\* The field setReceiptTTL writes to keep the hash in existence.
DUMMY == "dummy"

\* receipt.streamId is a string; the hash's fields are stream ids and DUMMY.
StreamIds == {DUMMY, "1"}

\* Long values a caller can pass: a signed Long may be negative, an unsigned
\* one may exceed Long.MAX_VALUE.
Amounts == (0 - 1) .. (MAX_VALUE + 1)

\* receipt.totalReceived is an unsigned Long.
Totals == 0 .. (MAX_VALUE + 1)

ERR_RECEIPT_AMOUNT == "receipt amount exceeds max 64 bit signed integer"
ERR_CREDIT_NEGATIVE == "credit amount must not be negative"
ERR_CREDIT_AMOUNT == "credit amount exceeds max 64 bit signed integer"
ERR_BALANCE_OVERFLOW == "balance cannot exceed max 64 bit signed integer"
ERR_SPEND_NEGATIVE == "spend amount must not be negative"
ERR_SPEND_AMOUNT == "spend amount exceeds max 64 bit signed integer"
ERR_INSUFFICIENT == "insufficient balance"
ERR_NO_BALANCE == "balance does not exist"
ERR_REDIS_OVERFLOW == "ERR increment or decrement would overflow"
\* The error ioredis rejects a command with when the connection is lost.
ERR_TRANSPORT == "Connection is closed."
ERR_POINTER_NOT_FOUND == "pointer not found"
ERR_INVALID_URL == "Invalid URL"
ERR_WRONGTYPE == "WRONGTYPE Operation against a key holding the wrong kind of value"

BALANCE_KEY == "ilpBalances"
RECEIPT_KEY == "ilpReceipts"

\* `${BALANCE_KEY}:${id}` and `${RECEIPT_KEY}:${nonce}`
BalanceKey(id) == BALANCE_KEY \o ":" \o id
ReceiptKey(nonce) == RECEIPT_KEY \o ":" \o nonce

\* Pointers and URLs are sequences of lexemes: "$" or a scheme, a host, a path.
HTTPS == "https://"

\* Payment pointers a caller can pass: two spellings of one endpoint, a
\* pointer with no path, and a string that is no URL.
Pointers ==
  { <<"$", "wallet.example", "/alice">>,
    <<HTTPS, "wallet.example", "/alice">>,
    <<"$", "wallet.example">>,
    <<"wallet.example", "/alice">> }

\* crypto.createHash('sha256').update(pointer).digest('hex'), for Pointers.
Sha256Hex(pointer) ==
  CASE pointer = <<"$", "wallet.example", "/alice">> ->
         "7fa24bb32f62c2ddac165e3b270e6329b9cb54c1e2395386127748e98f0b4cbe"
    [] pointer = <<HTTPS, "wallet.example", "/alice">> ->
         "18c8baabb7412a1dd860b65fb7fc0ae9090d0c9e9097c0b2b34891396fec284f"
    [] pointer = <<"$", "wallet.example">> ->
         "3d99ed088fe4d6abd7316769f867b95459d14aec9effae41da01af3435ce5852"
    [] pointer = <<"wallet.example", "/alice">> ->
         "53bd82ffa502342a560cb8b546b62fbb0e5385ecac505216aa8a29d2f3b41190"

\* Strings a caller can pass as hashedPointer: any string is accepted, the
\* digests of Pointers and the keys of the other records among them.
Keys ==
  {Sha256Hex(pointer) : pointer \in Pointers}
    \cup {BalanceKey(b) : b \in BalanceIds} \cup {ReceiptKey(n) : n \in Nonces}

VARIABLES
  balances,   \* string keys ilpBalances:<id>: a function from the ids that exist to integers
  receipts,   \* hash keys ilpReceipts:<nonce>: from the nonces that exist to a hash (field -> integer)
  expiry,     \* seconds left of the keys of receipts that carry a TTL
  calls,      \* per client: the call in flight and the store command it awaits
  last,       \* what the step just taken returned or threw to its caller (NoResponse if nothing)
  net,        \* history: per balance id, successful credits minus successful spends
  deltas,     \* history: per nonce and stream, sum of the deltas returned over the record's life
  clean,      \* history: the record was created by setReceiptTTL and only getReceiptValue acted since
  sorted,     \* history: per nonce and stream, the last total submitted, Unsorted once out of order
  window,     \* history: per nonce, "never" registered, validity window "open" or "elapsed"
  proxies,    \* string keys <sha256 hex>: a function from the digests that are mapped to a URL
  first,      \* history: per pointer created, the digest returned and the URL stored the first time
  mapped,     \* history: per digest, the pointer of the last createProxy with no deleteProxy since
  replay      \* history, kept from the start in SpecReplay only: per nonce and stream, the
              \* sum of the deltas returned (paid) and the largest total submitted (top)

vars ==
  <<balances, receipts, expiry, calls, last, net, deltas, clean, sorted, window,
    proxies, first, mapped, replay>>

ledgerVars == <<balances, net>>
receiptVars == <<receipts, expiry, deltas, clean, sorted, window>>
proxyVars == <<proxies, first, mapped>>

Unsorted == 0 - 1

(***************************************************************************)
(* The store's commands, as functions of the keyspace                      *)
(***************************************************************************)

Put(f, k, v) == [x \in DOMAIN f \cup {k} |-> IF x = k THEN v ELSE f[x]]

\* Mutant of Del: nothing is removed.
Del_Nothing(f, ks) == f

Del(f, ks) == [x \in DOMAIN f \ ks |-> f[x]]

\* Mutant of KeyExists: every key is reported to exist.
KeyExists_Always(store, key) == TRUE

\* EXISTS key
KeyExists(store, key) == key \in DOMAIN store

\* HGET key field is nil (false in Lua) unless the field is there.
HExists(store, key, field) == key \in DOMAIN store /\ field \in DOMAIN store[key]

\* Mutant of HSet: the hash is replaced by one that holds the field alone.
HSet_ReplacesHash(store, key, field, value) == Put(store, key, Put(<<>>, field, value))

\* HSET key field value: creates the key (with no TTL) when it is absent.
HSet(store, key, field, value) ==
  Put(store, key, Put(IF key \in DOMAIN store THEN store[key] ELSE <<>>, field, value))

\* Mutant of IncrBy: the range is not checked.
IncrBy_Unchecked(store, key, n) ==
  [ok |-> TRUE,
   store |-> Put(store, key, (IF key \in DOMAIN store THEN store[key] ELSE 0) + n)]

\* INCRBY / DECRBY key n: an absent key counts as 0; the command fails, and
\* writes nothing, when the result leaves the signed 64-bit range.
IncrBy(store, key, n) ==
  LET cur == IF key \in DOMAIN store THEN store[key] ELSE 0
      new == cur + n
  IN  IF new > MAX_VALUE \/ new < MIN_VALUE
      THEN [ok |-> FALSE, store |-> store]
      ELSE [ok |-> TRUE, store |-> Put(store, key, new)]

\* EXPIRE key seconds: nothing when the key is absent.
Expire(store, ttls, key, seconds) ==
  IF key \in DOMAIN store THEN Put(ttls, key, seconds) ELSE ttls

\* Mutant of LongCompare: equal numbers compare as greater.
LongCompare_EqualIsGreater(a, b) == IF a >= b THEN 1 ELSE 0 - 1

\* Mutant of LongCompare: no number compares as greater.
LongCompare_NeverGreater(a, b) == IF a = b THEN 0 ELSE 0 - 1

\* compare() of the long package
LongCompare(a, b) == IF a = b THEN 0 ELSE IF a > b THEN 1 ELSE 0 - 1

(***************************************************************************)
(* The Lua scripts (defineCommand): each runs as one atomic unit           *)
(***************************************************************************)

\* Mutant of GetReceiptValueScript: the total is returned, not the difference.
GetReceiptValueScript_ReturnsTotal(store, key, streamId, amount) ==
  IF HExists(store, key, streamId)
  THEN IF amount - store[key][streamId] < 0
       THEN [store |-> store, ret |-> 0]
       ELSE [store |-> HSet(store, key, streamId, amount), ret |-> amount]
  ELSE [store |-> HSet(store, key, streamId, amount), ret |-> amount]

\* Mutant of GetReceiptValueScript: the total is stored also when it is lower.
GetReceiptValueScript_AlwaysWrites(store, key, streamId, amount) ==
  IF HExists(store, key, streamId)
  THEN LET diff == amount - store[key][streamId]
       IN  [store |-> HSet(store, key, streamId, amount),
            ret |-> IF diff < 0 THEN 0 ELSE diff]
  ELSE [store |-> HSet(store, key, streamId, amount), ret |-> amount]

\* getReceiptValue.  tempKey is a key of the call's own (ilpTemp:<uuid>, one
\* second to live) that only this script reads: SET tempKey amount, DECRBY
\* tempKey prevAmount, GET tempKey is the difference, kept here as diff.
\* Both numbers are in 0..MAX_VALUE, so DECRBY cannot overflow.  The result
\* is negative exactly when its decimal text starts with '-'.
GetReceiptValueScript(store, key, streamId, amount) ==
  IF HExists(store, key, streamId)
  THEN LET prevAmount == store[key][streamId]
           diff == amount - prevAmount
       IN  IF diff < 0
           THEN [store |-> store, ret |-> 0]
           ELSE [store |-> HSet(store, key, streamId, amount), ret |-> diff]
  ELSE [store |-> HSet(store, key, streamId, amount), ret |-> amount]

\* Mutant of CreditBalanceScript: an overflowing credit fills the balance
\* up to MAX_VALUE before it fails.
CreditBalanceScript_Partial(store, key, amount) ==
  LET inc == IncrBy(store, key, amount)
  IN  IF inc.ok
      THEN [store |-> inc.store, ret |-> inc.store[key], err |-> ""]
      ELSE [store |-> Put(store, key, MAX_VALUE), ret |-> 0, err |-> ERR_REDIS_OVERFLOW]

\* creditBalance: INCRBY, then GET.  A failing redis.call aborts the script
\* with the store's error.
CreditBalanceScript(store, key, amount) ==
  LET inc == IncrBy(store, key, amount)
  IN  IF inc.ok
      THEN [store |-> inc.store, ret |-> inc.store[key], err |-> ""]
      ELSE [store |-> store, ret |-> 0, err |-> ERR_REDIS_OVERFLOW]

\* Mutant of SpendBalanceScript: the INCRBY that undoes the DECRBY is missing.
SpendBalanceScript_NoRollback(store, key, amount) ==
  IF KeyExists(store, key)
  THEN LET dec == IncrBy(store, key, 0 - amount)
       IN  IF dec.store[key] < 0
           THEN [store |-> dec.store, ret |-> 0, err |-> ERR_INSUFFICIENT]
           ELSE [store |-> dec.store, ret |-> dec.store[key], err |-> ""]
  ELSE [store |-> store, ret |-> 0, err |-> ERR_NO_BALANCE]

\* Mutant of SpendBalanceScript: a spend of more than the balance takes
\* what is left and succeeds, unless nothing is left.
SpendBalanceScript_TakesTheRest(store, key, amount) ==
  IF KeyExists(store, key)
  THEN LET dec == IncrBy(store, key, 0 - amount)
       IN  IF dec.store[key] < 0 /\ store[key] = 0
           THEN [store |-> store, ret |-> 0, err |-> ERR_INSUFFICIENT]
           ELSE IF dec.store[key] < 0
           THEN [store |-> Put(store, key, 0), ret |-> 0, err |-> ""]
           ELSE [store |-> dec.store, ret |-> dec.store[key], err |-> ""]
  ELSE [store |-> store, ret |-> 0, err |-> ERR_NO_BALANCE]

\* Mutant of SpendBalanceScript: a result of 0 counts as negative.
SpendBalanceScript_OffByOne(store, key, amount) ==
  IF KeyExists(store, key)
  THEN LET dec == IncrBy(store, key, 0 - amount)
       IN  IF dec.store[key] <= 0
           THEN [store |-> store, ret |-> 0, err |-> ERR_INSUFFICIENT]
           ELSE [store |-> dec.store, ret |-> dec.store[key], err |-> ""]
  ELSE [store |-> store, ret |-> 0, err |-> ERR_NO_BALANCE]

\* Mutant of SpendBalanceScript: the GET that guards the script is missing,
\* so that DECRBY creates the key.
SpendBalanceScript_NoExistsCheck(store, key, amount) ==
  LET dec == IncrBy(store, key, 0 - amount)
  IN  IF dec.store[key] < 0
      THEN [store |-> IncrBy(dec.store, key, amount).store, ret |-> 0,
            err |-> IF KeyExists(store, key) THEN ERR_INSUFFICIENT ELSE ERR_NO_BALANCE]
      ELSE [store |-> dec.store, ret |-> dec.store[key],
            err |-> IF KeyExists(store, key) THEN "" ELSE ERR_NO_BALANCE]

\* spendBalance: DECRBY, and INCRBY back when the result is negative.
SpendBalanceScript(store, key, amount) ==
  IF KeyExists(store, key)
  THEN LET dec == IncrBy(store, key, 0 - amount)
           balance == dec.store[key]
       IN  IF ~dec.ok
           THEN [store |-> store, ret |-> 0, err |-> ERR_REDIS_OVERFLOW]
           ELSE IF balance < 0
           THEN [store |-> IncrBy(dec.store, key, amount).store, ret |-> 0,
                 err |-> ERR_INSUFFICIENT]
           ELSE [store |-> dec.store, ret |-> balance, err |-> ""]
  ELSE [store |-> store, ret |-> 0, err |-> ERR_NO_BALANCE]

(***************************************************************************)
(* Calls in flight and their results                                       *)
(***************************************************************************)

\* A client with no call in flight.
IdleCall ==
  [op |-> "none", pc |-> "idle", id |-> "", stream |-> "", amount |-> 0,
   inWindow |-> FALSE, peers |-> {}, rivals |-> {}]

\* A call awaiting the store command pc.  History, for the claims about two
\* concurrent calls:
\*   inWindow  the nonce's validity window was open at the call's first
\*             store access;
\*   peers     (getReceiptValue) the totals of the calls on the same nonce and
\*             stream whose script ran while this call was in flight and
\*             returned their whole total, nothing but getReceiptValue
\*             scripts having changed the record since;
\*   rivals    (spendBalance) the errors ("" for success) of the spends on
\*             the same id whose script ran while this call was in flight,
\*             at a balance that covered either amount but not both, no
\*             credit having run since.
Pending(op, pc, id, stream, amount, inWindow) ==
  [op |-> op, pc |-> pc, id |-> id, stream |-> stream, amount |-> amount,
   inWindow |-> inWindow, peers |-> {}, rivals |-> {}]

NoResponse ==
  [by |-> "", op |-> "none", step |-> "", id |-> "", stream |-> "", amount |-> 0,
   had |-> FALSE, pre |-> 0, ret |-> 0, err |-> "", inWindow |-> FALSE, peers |-> {},
   rivals |-> {}]

\* The outcome of a call: the step that ended it, whether the record (field)
\* it worked on was there (had) with which value (pre), and the value
\* returned (ret) or the message of the Error thrown (err).
Response(by, op, step, id, stream, amount, had, pre, ret, err, c) ==
  [by |-> by, op |-> op, step |-> step, id |-> id, stream |-> stream,
   amount |-> amount, had |-> had, pre |-> pre, ret |-> ret, err |-> err,
   inWindow |-> c.inWindow, peers |-> c.peers, rivals |-> c.rivals]

\* History sums stop one past MAX_VALUE (and one below 0): no stored value is there.
Sat(n) == IF n > MAX_VALUE THEN MAX_VALUE + 1 ELSE IF n < 0 THEN 0 - 1 ELSE n

InFlightOn(q, op, id) == calls[q].op = op /\ calls[q].pc = "script" /\ calls[q].id = id

\* The history replay when it is not kept, and when nothing has happened yet.
Unrecorded == <<>>
NothingPaid == [n \in Nonces |-> [s \in StreamIds |-> [paid |-> 0, top |-> 0]]]

\* A total is submitted for a stream; a delta is returned for it.
Submitted(h, nonce, streamId, total) ==
  IF DOMAIN h = {} THEN h
  ELSE [h EXCEPT ![nonce][streamId].top = IF total > @ THEN total ELSE @]

Paid(h, nonce, streamId, delta) ==
  IF DOMAIN h = {} THEN h ELSE [h EXCEPT ![nonce][streamId].paid = Sat(@ + delta)]

\* The empty store, with no call in flight.
InitStore ==
  /\ balances = <<>>
  /\ receipts = <<>>
  /\ expiry = <<>>
  /\ calls = [p \in Procs |-> IdleCall]
  /\ last = NoResponse
  /\ net = [b \in BalanceIds |-> 0]
  /\ deltas = [n \in Nonces |-> [s \in StreamIds |-> 0]]
  /\ clean = [n \in Nonces |-> FALSE]
  /\ sorted = [n \in Nonces |-> [s \in StreamIds |-> Unsorted]]
  /\ window = [n \in Nonces |-> "never"]
  /\ proxies = <<>>
  /\ first = <<>>
  /\ mapped = <<>>

Init == InitStore /\ replay = Unrecorded

(***************************************************************************)
(* Receipt watermark tracker                                               *)
(***************************************************************************)

\* The calls of the other clients, with the history of those in flight on
\* nonce's record started afresh: something other than a getReceiptValue
\* script has changed the record.
ForgetPeers(cs, nonces) ==
  [q \in Procs |->
     IF cs[q].op = "getReceiptValue" /\ cs[q].id \in nonces
     THEN [cs[q] EXCEPT !.peers = {}]
     ELSE cs[q]]

\* setReceiptTTL, first command: HSET key 'dummy' 0.
SetReceiptTTLHset(p, nonce) ==
  /\ calls[p].pc = "idle"
  /\ receipts' = HSet(receipts, nonce, DUMMY, 0)
  /\ calls' = [ForgetPeers(calls, {nonce}) EXCEPT
                 ![p] = Pending("setReceiptTTL", "expire", nonce, "", 0, TRUE)]
  /\ last' = NoResponse
  /\ window' = [window EXCEPT ![nonce] = "open"]
  /\ clean' = [clean EXCEPT ![nonce] =
                 /\ ~KeyExists(receipts, nonce)
                 /\ \A q \in Procs : ~InFlightOn(q, "getReceiptValue", nonce)]
  /\ deltas' = [deltas EXCEPT ![nonce] = [s \in StreamIds |-> 0]]
  /\ sorted' = [sorted EXCEPT ![nonce] =
                  [s \in StreamIds |-> IF clean'[nonce] THEN 0 ELSE Unsorted]]
  /\ UNCHANGED <<expiry, balances, net, proxyVars, replay>>

\* setReceiptTTL, second command: EXPIRE key receiptTTLSeconds; then it returns.
SetReceiptTTLExpire(p) ==
  LET c == calls[p]
  IN  /\ c.op = "setReceiptTTL" /\ c.pc = "expire"
      /\ expiry' = Expire(receipts, expiry, c.id, receiptTTLSeconds)
      /\ calls' = [calls EXCEPT ![p] = IdleCall]
      /\ last' = Response(p, c.op, "expire", c.id, "", 0, KeyExists(receipts, c.id),
                          0, 0, "", c)
      /\ UNCHANGED <<receipts, balances, net, deltas, clean, sorted, window, proxyVars, replay>>

\* getReceiptValue up to its first await: the amount check and EXISTS key.
\* The call's answer to "is there a record" is the store's answer at this step.
GetReceiptValueBegin(p, nonce, streamId, totalReceived) ==
  /\ calls[p].pc = "idle"
  /\ IF LongCompare(totalReceived, MAX_VALUE) = 1
     THEN /\ last' = Response(p, "getReceiptValue", "validate", nonce, streamId,
                              totalReceived, FALSE, 0, 0, ERR_RECEIPT_AMOUNT,
                              Pending("", "", nonce, streamId, totalReceived,
                                      window[nonce] = "open"))
          /\ UNCHANGED <<calls, sorted>>
     ELSE IF KeyExists(receipts, nonce)
     THEN /\ calls' = [calls EXCEPT ![p] =
                         Pending("getReceiptValue", "script", nonce, streamId,
                                 totalReceived, window[nonce] = "open")]
          /\ last' = NoResponse
          /\ sorted' = [sorted EXCEPT ![nonce][streamId] =
                          IF clean[nonce] /\ @ # Unsorted /\ totalReceived >= @
                          THEN totalReceived ELSE Unsorted]
     ELSE /\ last' = Response(p, "getReceiptValue", "exists", nonce, streamId,
                              totalReceived, FALSE, 0, 0, "",
                              Pending("", "", nonce, streamId, totalReceived,
                                      window[nonce] = "open"))
          /\ UNCHANGED <<calls, sorted>>
  /\ replay' = Submitted(replay, nonce, streamId, totalReceived)
  /\ UNCHANGED <<receipts, expiry, balances, net, deltas, clean, window, proxyVars>>

\* getReceiptValue, second command: the Lua script; then it returns
\* Long.fromString(value).
GetReceiptValueEval(p) ==
  LET c == calls[p]
      had == HExists(receipts, c.id, c.stream)
      pre == IF had THEN receipts[c.id][c.stream] ELSE 0
      r == GetReceiptValueScript(receipts, c.id, c.stream, c.amount)
  IN  /\ c.op = "getReceiptValue" /\ c.pc = "script"
      /\ receipts' = r.store
      /\ calls' = [q \in Procs |->
                     IF q = p THEN IdleCall
                     ELSE IF InFlightOn(q, c.op, c.id) /\ calls[q].stream = c.stream
                     THEN [calls[q] EXCEPT !.peers =
                             IF r.ret = c.amount THEN @ \cup {c.amount} ELSE @]
                     ELSE calls[q]]
      /\ last' = Response(p, c.op, "script", c.id, c.stream, c.amount, had, pre,
                          r.ret, "", c)
      /\ deltas' = IF clean[c.id]
                   THEN [deltas EXCEPT ![c.id][c.stream] = Sat(@ + r.ret)]
                   ELSE deltas
      /\ replay' = Paid(replay, c.id, c.stream, r.ret)
      /\ UNCHANGED <<expiry, balances, net, clean, sorted, window, proxyVars>>

\* One second passes: the store removes the keys whose time to live ends.
Tick ==
  LET dead == {k \in DOMAIN expiry : expiry[k] = 1}
  IN  /\ DOMAIN expiry # {}
      /\ receipts' = Del(receipts, dead)
      /\ expiry' = [k \in DOMAIN expiry \ dead |-> expiry[k] - 1]
      /\ calls' = ForgetPeers(calls, dead)
      /\ last' = NoResponse
      /\ window' = [n \in Nonces |-> IF n \in dead THEN "elapsed" ELSE window[n]]
      /\ clean' = [n \in Nonces |-> clean[n] /\ n \notin dead]
      /\ deltas' = [n \in Nonces |->
                      IF n \in dead THEN [s \in StreamIds |-> 0] ELSE deltas[n]]
      /\ sorted' = [n \in Nonces |->
                      IF n \in dead THEN [s \in StreamIds |-> Unsorted] ELSE sorted[n]]
      /\ UNCHANGED <<balances, net, proxyVars, replay>>

(***************************************************************************)
(* Balance ledger                                                          *)
(***************************************************************************)

\* creditBalance up to its await: the amount checks.
CreditBalanceBegin(p, id, amount) ==
  /\ calls[p].pc = "idle"
  /\ IF amount < 0
     THEN /\ last' = Response(p, "creditBalance", "validate", id, "", amount, FALSE, 0, 0,
                              ERR_CREDIT_NEGATIVE, IdleCall)
          /\ UNCHANGED calls
     ELSE IF LongCompare(amount, MAX_VALUE) = 1
     THEN /\ last' = Response(p, "creditBalance", "validate", id, "", amount, FALSE, 0, 0,
                              ERR_CREDIT_AMOUNT, IdleCall)
          /\ UNCHANGED calls
     ELSE /\ calls' = [calls EXCEPT ![p] = Pending("creditBalance", "script", id, "", amount, FALSE)]
          /\ last' = NoResponse
  /\ UNCHANGED <<balances, net, receipts, expiry, deltas, clean, sorted, window, proxyVars, replay>>

\* creditBalance: the Lua script; any error it raises is rethrown as the
\* balance overflow error.
CreditBalanceEval(p) ==
  LET c == calls[p]
      had == KeyExists(balances, c.id)
      pre == IF had THEN balances[c.id] ELSE 0
      r == CreditBalanceScript(balances, c.id, c.amount)
      err == IF r.err = "" THEN "" ELSE ERR_BALANCE_OVERFLOW
  IN  /\ c.op = "creditBalance" /\ c.pc = "script"
      /\ balances' = r.store
      /\ calls' = [q \in Procs |->
                     IF q = p THEN IdleCall
                     ELSE IF InFlightOn(q, "spendBalance", c.id)
                     THEN [calls[q] EXCEPT !.rivals = {}]
                     ELSE calls[q]]
      /\ last' = Response(p, c.op, "script", c.id, "", c.amount, had, pre, r.ret, err, c)
      /\ net' = IF err = "" THEN [net EXCEPT ![c.id] = Sat(@ + c.amount)] ELSE net
      /\ UNCHANGED <<receipts, expiry, deltas, clean, sorted, window, proxyVars, replay>>

\* creditBalance when the store cannot be reached: the command is rejected
\* with the transport's error before any script runs, and the catch block
\* rethrows it as the balance overflow error.
CreditBalanceFail(p) ==
  LET c == calls[p]
      had == KeyExists(balances, c.id)
      pre == IF had THEN balances[c.id] ELSE 0
  IN  /\ c.op = "creditBalance" /\ c.pc = "script"
      /\ calls' = [calls EXCEPT ![p] = IdleCall]
      /\ last' = Response(p, c.op, "transport", c.id, "", c.amount, had, pre, 0,
                          ERR_BALANCE_OVERFLOW, c)
      /\ UNCHANGED <<balances, net, receipts, expiry, deltas, clean, sorted, window, proxyVars, replay>>

\* A balance that covers either of two spends but not both.
Contended(balance, a1, a2) == a1 <= balance /\ a2 <= balance /\ a1 + a2 > balance

\* spendBalance up to its await: the amount checks.
SpendBalanceBegin(p, id, amount) ==
  /\ calls[p].pc = "idle"
  /\ IF amount < 0
     THEN /\ last' = Response(p, "spendBalance", "validate", id, "", amount, FALSE, 0, 0,
                              ERR_SPEND_NEGATIVE, IdleCall)
          /\ UNCHANGED calls
     ELSE IF LongCompare(amount, MAX_VALUE) = 1
     THEN /\ last' = Response(p, "spendBalance", "validate", id, "", amount, FALSE, 0, 0,
                              ERR_SPEND_AMOUNT, IdleCall)
          /\ UNCHANGED calls
     ELSE /\ calls' = [calls EXCEPT ![p] = Pending("spendBalance", "script", id, "", amount, FALSE)]
          /\ last' = NoResponse
  /\ UNCHANGED <<balances, net, receipts, expiry, deltas, clean, sorted, window, proxyVars, replay>>

\* spendBalance: the Lua script; its error reply is thrown as it is.
SpendBalanceEval(p) ==
  LET c == calls[p]
      had == KeyExists(balances, c.id)
      pre == IF had THEN balances[c.id] ELSE 0
      r == SpendBalanceScript(balances, c.id, c.amount)
  IN  /\ c.op = "spendBalance" /\ c.pc = "script"
      /\ balances' = r.store
      /\ calls' = [q \in Procs |->
                     IF q = p THEN IdleCall
                     ELSE IF InFlightOn(q, c.op, c.id)
                     THEN [calls[q] EXCEPT !.rivals =
                             IF Contended(pre, c.amount, calls[q].amount)
                             THEN @ \cup {r.err} ELSE @]
                     ELSE calls[q]]
      /\ last' = Response(p, c.op, "script", c.id, "", c.amount, had, pre, r.ret, r.err, c)
      /\ net' = IF r.err = "" THEN [net EXCEPT ![c.id] = Sat(@ - c.amount)] ELSE net
      /\ UNCHANGED <<receipts, expiry, deltas, clean, sorted, window, proxyVars, replay>>

\* spendBalance when the store cannot be reached: the rejection is thrown
\* as it is.
SpendBalanceFail(p) ==
  LET c == calls[p]
      had == KeyExists(balances, c.id)
      pre == IF had THEN balances[c.id] ELSE 0
  IN  /\ c.op = "spendBalance" /\ c.pc = "script"
      /\ calls' = [calls EXCEPT ![p] = IdleCall]
      /\ last' = Response(p, c.op, "transport", c.id, "", c.amount, had, pre, 0,
                          ERR_TRANSPORT, c)
      /\ UNCHANGED <<balances, net, receipts, expiry, deltas, clean, sorted, window, proxyVars, replay>>

(***************************************************************************)
(* Proxy registry                                                          *)
(***************************************************************************)

StartsWith(str, lexeme) == Len(str) > 0 /\ Head(str) = lexeme

\* pointer.startsWith('$') ? 'https://' + pointer.substring(1) : pointer
Expand(pointer) ==
  IF StartsWith(pointer, "$") THEN <<HTTPS>> \o Tail(pointer) ELSE pointer

\* new URL(input) throws unless input has a scheme and, after it, a host.
IsURL(input) == StartsWith(input, HTTPS) /\ Len(input) >= 2

\* new URL(input).href: an empty path is written "/".
Href(input) == IF Len(input) = 2 THEN input \o <<"/">> ELSE input

\* Mutant of Set: the value is appended to the one stored (APPEND for SET).
Set_Append(store, key, value) ==
  Put(store, key, IF key \in DOMAIN store THEN store[key] \o value ELSE value)

\* SET key value
Set(store, key, value) == Put(store, key, value)

\* The outcome of a proxy registry call: the pointer or the key it was given,
\* whether the key was there (had), the digest or the value returned, and
\* whether the pointer had been created before (again).
ProxyResponse(by, op, pointer, key, had, value, err, again) ==
  [by |-> by, op |-> op, step |-> "command", id |-> key, stream |-> "", amount |-> 0,
   had |-> had, pre |-> 0, ret |-> 0, err |-> err, inWindow |-> FALSE, peers |-> {},
   rivals |-> {}, pointer |-> pointer, value |-> value, again |-> again]

\* createProxy: the URL is parsed (and the call throws) before the digest is
\* taken; SET is its one store command.
CreateProxy(p, pointer) ==
  LET endpoint == Expand(pointer)
      hashedPointer == Sha256Hex(pointer)
  IN  /\ calls[p].pc = "idle"
      /\ IF ~IsURL(endpoint)
         THEN /\ last' = ProxyResponse(p, "createProxy", pointer, "", FALSE, <<>>,
                                       ERR_INVALID_URL, pointer \in DOMAIN first)
              /\ UNCHANGED proxyVars
         ELSE /\ proxies' = Set(proxies, hashedPointer, Href(endpoint))
              /\ last' = ProxyResponse(p, "createProxy", pointer, hashedPointer,
                                       KeyExists(proxies, hashedPointer), hashedPointer,
                                       "", pointer \in DOMAIN first)
              /\ first' = IF pointer \in DOMAIN first THEN first
                          ELSE Put(first, pointer,
                                   [hash |-> hashedPointer, url |-> proxies'[hashedPointer]])
              /\ mapped' = Put(mapped, hashedPointer, pointer)
      /\ UNCHANGED <<calls, balances, net, receiptVars, replay>>

\* getPointer: GET key, whatever string the key is.  A balance is a string
\* key of the same store and GET returns it; a receipt record is a hash key
\* and GET fails on it; the reply is returned unless it is null or empty.
GetPointer(p, hashedPointer) ==
  LET balance == {b \in DOMAIN balances : BalanceKey(b) = hashedPointer}
      receipt == {n \in DOMAIN receipts : ReceiptKey(n) = hashedPointer}
  IN  /\ calls[p].pc = "idle"
      /\ last' =
           IF KeyExists(proxies, hashedPointer)
           THEN ProxyResponse(p, "getPointer", <<>>, hashedPointer, TRUE,
                              proxies[hashedPointer], "", FALSE)
           ELSE IF balance # {}
           THEN ProxyResponse(p, "getPointer", <<>>, hashedPointer, TRUE,
                              balances[CHOOSE b \in balance : TRUE], "", FALSE)
           ELSE IF receipt # {}
           THEN ProxyResponse(p, "getPointer", <<>>, hashedPointer, TRUE, <<>>,
                              ERR_WRONGTYPE, FALSE)
           ELSE ProxyResponse(p, "getPointer", <<>>, hashedPointer, FALSE, <<>>,
                              ERR_POINTER_NOT_FOUND, FALSE)
      /\ UNCHANGED <<calls, balances, net, receiptVars, proxyVars, replay>>

\* deleteProxy: DEL key, whatever string the key is.
DeleteProxy(p, hashedPointer) ==
  LET balance == {b \in DOMAIN balances : BalanceKey(b) = hashedPointer}
      receipt == {n \in DOMAIN receipts : ReceiptKey(n) = hashedPointer}
  IN  /\ calls[p].pc = "idle"
      /\ proxies' = Del(proxies, {hashedPointer})
      /\ balances' = Del(balances, balance)
      /\ receipts' = Del(receipts, receipt)
      /\ expiry' = Del(expiry, receipt)
      /\ calls' = ForgetPeers(calls, receipt)
      /\ last' = ProxyResponse(p, "deleteProxy", <<>>, hashedPointer,
                               KeyExists(proxies, hashedPointer) \/ balance # {}
                                 \/ receipt # {},
                               <<>>, "", FALSE)
      /\ mapped' = [h \in DOMAIN mapped \ {hashedPointer} |-> mapped[h]]
      /\ clean' = [n \in Nonces |-> clean[n] /\ n \notin receipt]
      /\ deltas' = [n \in Nonces |->
                      IF n \in receipt THEN [s \in StreamIds |-> 0] ELSE deltas[n]]
      /\ sorted' = [n \in Nonces |->
                      IF n \in receipt THEN [s \in StreamIds |-> Unsorted] ELSE sorted[n]]
      /\ UNCHANGED <<net, window, first, replay>>

(***************************************************************************)
(* Specifications                                                          *)
(***************************************************************************)

NextReceipts ==
  \/ \E p \in Procs, n \in OneNonce : SetReceiptTTLHset(p, n)
  \/ \E p \in Procs : SetReceiptTTLExpire(p)
  \/ \E p \in Procs, n \in OneNonce, s \in StreamIds, t \in Totals :
       GetReceiptValueBegin(p, n, s, t)
  \/ \E p \in Procs : GetReceiptValueEval(p)
  \/ Tick

NextLedger ==
  \/ \E p \in Procs, b \in OneBalanceId, a \in Amounts : CreditBalanceBegin(p, b, a)
  \/ \E p \in Procs : CreditBalanceEval(p)
  \/ \E p \in Procs, b \in OneBalanceId, a \in Amounts : SpendBalanceBegin(p, b, a)
  \/ \E p \in Procs : SpendBalanceEval(p)
  \/ \E p \in Procs : CreditBalanceFail(p)
  \/ \E p \in Procs : SpendBalanceFail(p)

NextProxy ==
  \/ \E p \in Procs, pointer \in Pointers : CreateProxy(p, pointer)
  \/ \E p \in Procs, key \in Keys : GetPointer(p, key)
  \/ \E p \in Procs, key \in Keys : DeleteProxy(p, key)

Next == NextReceipts \/ NextLedger \/ NextProxy

\* The whole service.
Spec == Init /\ [][Next]_vars

\* The receipt watermark tracker alone.
SpecReceipts == Init /\ [][NextReceipts]_vars

\* The balance ledger alone.
SpecLedger == Init /\ [][NextLedger]_vars

\* The receipt watermark tracker with one client, whose calls follow one
\* another, and the history replay kept from the start.
Sequential == {"c1"}

NextReplay ==
  \/ \E p \in Sequential, n \in OneNonce : SetReceiptTTLHset(p, n)
  \/ \E p \in Sequential : SetReceiptTTLExpire(p)
  \/ \E p \in Sequential, n \in OneNonce, s \in StreamIds, t \in Totals :
       GetReceiptValueBegin(p, n, s, t)
  \/ \E p \in Sequential : GetReceiptValueEval(p)
  \/ Tick

InitReplay == InitStore /\ replay = NothingPaid

SpecReplay == InitReplay /\ [][NextReplay]_vars

\* Two balances and two receipts.  The ledger is explored while no receipt
\* call has been made and the tracker (one client; the second nonce with the
\* stream "1" alone) while no balance exists: neither writes what the other
\* reads.
LedgerUntouched ==
  /\ DOMAIN balances = {}
  /\ \A p \in Procs : calls[p].op \notin {"creditBalance", "spendBalance"}

ReceiptsUntouched ==
  /\ DOMAIN receipts = {}
  /\ \A n \in Nonces : window[n] = "never"
  /\ \A p \in Procs : calls[p].op \notin {"setReceiptTTL", "getReceiptValue"}

StreamsOf(nonce) == IF nonce \in OneNonce THEN StreamIds ELSE {"1"}

NextIdentifiers ==
  \/ \E p \in Procs, b \in BalanceIds, a \in Amounts :
       ReceiptsUntouched /\ CreditBalanceBegin(p, b, a)
  \/ \E p \in Procs : ReceiptsUntouched /\ CreditBalanceEval(p)
  \/ \E p \in Procs, b \in BalanceIds, a \in Amounts :
       ReceiptsUntouched /\ SpendBalanceBegin(p, b, a)
  \/ \E p \in Procs : ReceiptsUntouched /\ SpendBalanceEval(p)
  \/ \E p \in Sequential, n \in Nonces : LedgerUntouched /\ SetReceiptTTLHset(p, n)
  \/ \E p \in Sequential : LedgerUntouched /\ SetReceiptTTLExpire(p)
  \/ \E p \in Sequential, n \in Nonces :
       \E s \in StreamsOf(n), t \in Totals :
         LedgerUntouched /\ GetReceiptValueBegin(p, n, s, t)
  \/ \E p \in Sequential : LedgerUntouched /\ GetReceiptValueEval(p)
  \/ LedgerUntouched /\ Tick

SpecIdentifiers == Init /\ [][NextIdentifiers]_vars

\* The three kinds of record in the one store: the proxy registry next to
\* the ledger and the tracker, with one client, one balance, one receipt with
\* the stream "1", and two pointers (one of them no URL).
SharedPointers == {<<"$", "wallet.example", "/alice">>, <<"wallet.example", "/alice">>}

NextShared ==
  \/ \E p \in Sequential, b \in OneBalanceId, a \in Amounts : CreditBalanceBegin(p, b, a)
  \/ \E p \in Sequential : CreditBalanceEval(p)
  \/ \E p \in Sequential, b \in OneBalanceId, a \in Amounts : SpendBalanceBegin(p, b, a)
  \/ \E p \in Sequential : SpendBalanceEval(p)
  \/ \E p \in Sequential, n \in OneNonce : SetReceiptTTLHset(p, n)
  \/ \E p \in Sequential : SetReceiptTTLExpire(p)
  \/ \E p \in Sequential, n \in OneNonce, t \in Totals : GetReceiptValueBegin(p, n, "1", t)
  \/ \E p \in Sequential : GetReceiptValueEval(p)
  \/ Tick
  \/ \E p \in Sequential, pointer \in SharedPointers : CreateProxy(p, pointer)
  \/ \E p \in Sequential, key \in Keys : GetPointer(p, key)
  \/ \E p \in Sequential, key \in Keys : DeleteProxy(p, key)

SpecShared == Init /\ [][NextShared]_vars

\* The proxy registry alone.
SpecProxy == Init /\ [][NextProxy]_vars

(***************************************************************************)
(* Balance ledger: properties                                              *)
(***************************************************************************)

\* The stored balance, an absent record counting as 0.
BalanceOf(id) == IF KeyExists(balances, id) THEN balances[id] ELSE 0

\* The step just taken was the script of a call of this kind.
Ran(op) == last.op = op /\ last.step = "script"

\* C4: after any interleaving of creditBalance and spendBalance calls on a
\* balance id, the stored balance equals the initial value (no record, 0)
\* plus the amounts of the calls that succeeded as credits minus those that
\* succeeded as spends (failed calls add nothing), and it is never negative.
C4_BalanceIsNetOfSuccessfulCalls ==
  \A b \in BalanceIds : BalanceOf(b) = net[b] /\ BalanceOf(b) >= 0

\* A spend has just failed, after credits and spends that succeeded.
C4_Witness ==
  /\ Ran("spendBalance") /\ last.err = ERR_INSUFFICIENT
  /\ 0 < net[last.id] /\ net[last.id] < MAX_VALUE /\ BalanceOf(last.id) = net[last.id]

\* C5: of two spends in flight together on a balance that covers either
\* amount but not both, the one whose script runs first succeeds and the
\* other fails with 'insufficient balance', whichever runs first.
C5_ContendedSpendsOneSucceeds ==
  (Ran("spendBalance") /\ last.rivals # {}) =>
    (last.rivals = {""} /\ last.err = ERR_INSUFFICIENT)

\* The second of two such spends has just run.
C5_Witness ==
  /\ Ran("spendBalance") /\ last.rivals = {""} /\ last.err = ERR_INSUFFICIENT
  /\ last.had /\ last.amount > last.pre /\ balances[last.id] = last.pre

\* C6: a credit whose amount added to the stored balance exceeds MAX_VALUE
\* fails with the balance overflow error and the record is as it was.
C6_CreditOverflowLeavesBalance ==
  (Ran("creditBalance") /\ last.pre + last.amount > MAX_VALUE) =>
    /\ last.err = ERR_BALANCE_OVERFLOW
    /\ KeyExists(balances, last.id) = last.had
    /\ BalanceOf(last.id) = last.pre

\* A credit of a valid amount has just overflowed a balance.
C6_Witness ==
  /\ Ran("creditBalance") /\ last.err = ERR_BALANCE_OVERFLOW
  /\ last.had /\ last.pre + last.amount > MAX_VALUE /\ last.amount <= MAX_VALUE
  /\ balances[last.id] = last.pre

\* C7: a spend on an existing balance fails with 'insufficient balance' and
\* leaves the balance when its amount exceeds it; otherwise (the amount equal
\* to the balance included) it succeeds, returns and stores balance - amount.
C7_SpendChecksBalance ==
  (Ran("spendBalance") /\ last.had) =>
    IF last.amount > last.pre
    THEN /\ last.err = ERR_INSUFFICIENT
         /\ KeyExists(balances, last.id) /\ balances[last.id] = last.pre
    ELSE /\ last.err = ""
         /\ last.ret = last.pre - last.amount
         /\ KeyExists(balances, last.id) /\ balances[last.id] = last.ret

\* A spend of more than the balance has just failed and left the balance.
C7_Witness ==
  /\ Ran("spendBalance") /\ last.had /\ last.amount > last.pre /\ last.pre > 0
  /\ last.err = ERR_INSUFFICIENT /\ balances[last.id] = last.pre

\* C8: spendBalance on an id with no record fails with 'balance does not
\* exist' and creates none, also for amount 0; creditBalance on an id with
\* no record creates it holding the amount, and returns the amount.
C8_OnlyCreditCreatesBalance ==
  /\ (Ran("spendBalance") /\ ~last.had) =>
       (last.err = ERR_NO_BALANCE /\ ~KeyExists(balances, last.id))
  /\ (Ran("creditBalance") /\ ~last.had) =>
       /\ last.err = "" /\ last.ret = last.amount
       /\ KeyExists(balances, last.id) /\ balances[last.id] = last.amount

\* A spend of 0 on an id with no record has just failed, and there is no record.
C8_Witness ==
  /\ Ran("spendBalance") /\ ~last.had /\ last.amount = 0
  /\ last.err = ERR_NO_BALANCE /\ ~KeyExists(balances, last.id)

\* The amount is one creditBalance and spendBalance refuse.
InvalidAmount(amount) == amount < 0 \/ amount > MAX_VALUE

\* C12: a creditBalance or spendBalance call whose amount is negative or
\* exceeds MAX_VALUE throws the error of its amount check ('credit amount
\* ...' or 'spend amount ...', and for a spend never 'balance does not
\* exist') and leaves the store as it was, whether or not the record exists.
C12_InvalidAmountLeavesStore ==
  [][(last'.op \in {"creditBalance", "spendBalance"} /\ InvalidAmount(last'.amount)) =>
       /\ last'.step = "validate"
       /\ last'.err = (IF last'.op = "creditBalance"
                       THEN IF last'.amount < 0 THEN ERR_CREDIT_NEGATIVE ELSE ERR_CREDIT_AMOUNT
                       ELSE IF last'.amount < 0 THEN ERR_SPEND_NEGATIVE ELSE ERR_SPEND_AMOUNT)
       /\ balances' = balances]_vars

\* A spend of more than MAX_VALUE on an id with no record has just been
\* refused for its amount, and there is still no record.
C12_Witness ==
  /\ last.op = "spendBalance" /\ last.amount > MAX_VALUE
  /\ last.err = ERR_SPEND_AMOUNT /\ ~KeyExists(balances, last.id)
  /\ \E q \in Procs : InFlightOn(q, "creditBalance", last.id)

\* C9: in every state of the store, every stored balance is in 0..MAX_VALUE.
C9_BalanceInRange ==
  \A b \in DOMAIN balances : 0 <= balances[b] /\ balances[b] <= MAX_VALUE

\* A balance stands at MAX_VALUE after the credit that would exceed it,
\* with a spend in flight.
C9_Witness ==
  /\ Ran("creditBalance") /\ last.err = ERR_BALANCE_OVERFLOW
  /\ balances[last.id] = MAX_VALUE
  /\ \E q \in Procs : InFlightOn(q, "spendBalance", last.id)

(***************************************************************************)
(* Proxy registry: properties                                              *)
(***************************************************************************)

\* C13: a createProxy call with a pointer that was created before, whatever
\* calls came in between, returns the digest the first call returned and
\* leaves under it the URL that was there after the first call.
C13_CreateProxyIdempotent ==
  (last.op = "createProxy" /\ last.err = "") =>
    /\ last.value = first[last.pointer].hash
    /\ KeyExists(proxies, last.value)
    /\ proxies[last.value] = first[last.pointer].url

\* '$wallet.example/alice' has just been created a second time, its mapping
\* having been deleted in between, and 'https://wallet.example/alice' is
\* stored under its digest.
C13_Witness ==
  /\ last.op = "createProxy" /\ last.err = "" /\ last.again /\ ~last.had
  /\ last.pointer = <<"$", "wallet.example", "/alice">>
  /\ last.value = first[last.pointer].hash
  /\ proxies[last.value] = <<HTTPS, "wallet.example", "/alice">>

\* C14: getPointer with a digest that createProxy returned, and that no
\* deleteProxy was given since, returns the href of that pointer's URL; with
\* a digest deleted since, or never created, it throws 'pointer not found';
\* deleteProxy with a digest that has no mapping returns and leaves every
\* mapping as it was.
C14_LookupUntilDelete ==
  [][/\ (last'.op = "getPointer" /\ last'.id \in DOMAIN mapped) =>
          (last'.err = "" /\ last'.value = Href(Expand(mapped[last'.id])))
     /\ (last'.op = "getPointer" /\ last'.id \notin DOMAIN mapped
           /\ \E pointer \in Pointers : Sha256Hex(pointer) = last'.id) =>
          last'.err = ERR_POINTER_NOT_FOUND
     /\ (last'.op = "deleteProxy" /\ last'.id \notin DOMAIN proxies
           /\ \E pointer \in Pointers : Sha256Hex(pointer) = last'.id) =>
          (last'.err = "" /\ proxies' = proxies)]_vars

\* The digest of '$wallet.example' was created and then deleted, and
\* getPointer has just thrown 'pointer not found' for it, the mapping of
\* another pointer being in place.
C14_Witness ==
  /\ last.op = "getPointer" /\ last.err = ERR_POINTER_NOT_FOUND
  /\ last.id = Sha256Hex(<<"$", "wallet.example">>)
  /\ <<"$", "wallet.example">> \in DOMAIN first
  /\ DOMAIN proxies # {}

(***************************************************************************)
(* Receipt watermark tracker: properties                                   *)
(***************************************************************************)

\* The stored watermark of a stream, 0 when the stream has not been seen.
Watermark(nonce, streamId) ==
  IF HExists(receipts, nonce, streamId) THEN receipts[nonce][streamId] ELSE 0

\* No getReceiptValue call is in flight on the stream.
Quiet(nonce, streamId) ==
  \A q \in Procs : ~(InFlightOn(q, "getReceiptValue", nonce) /\ calls[q].stream = streamId)

\* Over the life of a record that setReceiptTTL created and on which only
\* getReceiptValue calls have acted since, the deltas returned for a stream
\* add up to its stored watermark.
SumOfDeltasIsWatermark ==
  \A n \in Nonces, s \in StreamIds : clean[n] => deltas[n][s] = Watermark(n, s)

\* ... and, once the calls have returned, to the last total submitted when
\* the totals (those accepted, up to MAX_VALUE) came in non-decreasing order.
SumOfDeltasIsLastTotal ==
  \A n \in Nonces, s \in StreamIds :
    (clean[n] /\ sorted[n][s] # Unsorted /\ Quiet(n, s)) => deltas[n][s] = sorted[n][s]

\* Of two calls in flight together on one stream with different totals, the
\* smaller one at least lowest, not both are returned their whole total.
NotBothInFull(lowest) ==
  Ran("getReceiptValue") =>
    \A t \in last.peers :
      (t # last.amount /\ t >= lowest /\ last.amount >= lowest) => last.ret # last.amount

\* C1 as stated: the sum of the deltas is the final watermark (the last total,
\* for totals in non-decreasing order), and two concurrent calls with totals
\* T1 < T2 never both receive their whole totals.
C1_AsStated == SumOfDeltasIsWatermark /\ SumOfDeltasIsLastTotal /\ NotBothInFull(0)

\* C1, amended: the same, for two concurrent calls with totals 0 < T1 < T2
\* (a call with total 0 is returned 0, its whole total, next to any other).
C1_DeltasSumToWatermark == SumOfDeltasIsWatermark /\ SumOfDeltasIsLastTotal /\ NotBothInFull(1)

\* Two calls with totals 0 < T1 < T2 were in flight together; T1's script ran
\* first and returned T1, T2's has just returned T2 - T1, and the deltas add
\* up to the watermark T2, the last total submitted.
C1_Witness ==
  /\ Ran("getReceiptValue") /\ clean[last.id]
  /\ \E t \in last.peers : 0 < t /\ t < last.amount /\ last.ret = last.amount - t
  /\ deltas[last.id][last.stream] = last.amount
  /\ sorted[last.id][last.stream] = last.amount
  /\ Watermark(last.id, last.stream) = last.amount

\* C2: a getReceiptValue script run with a total below the stored watermark
\* of its nonce and stream returns 0 and leaves that watermark.
C2_LowerTotalReturnsZero ==
  (Ran("getReceiptValue") /\ last.had /\ last.amount < last.pre) =>
    /\ last.ret = 0
    /\ HExists(receipts, last.id, last.stream)
    /\ receipts[last.id][last.stream] = last.pre

\* A call with a total below the watermark has just returned 0.
C2_Witness ==
  /\ Ran("getReceiptValue") /\ last.had /\ last.amount < last.pre
  /\ last.ret = 0 /\ receipts[last.id][last.stream] = last.pre

\* The call that has just returned left the field of its stream as it was.
FieldAsBefore ==
  \/ last.step = "exists"
  \/ IF last.had
     THEN HExists(receipts, last.id, last.stream) /\ receipts[last.id][last.stream] = last.pre
     ELSE ~HExists(receipts, last.id, last.stream)

\* C3: a getReceiptValue call for a nonce that was never registered, or whose
\* validity window had elapsed when the call reached the store, returns 0
\* and changes nothing in the store.
C3_NoCreditOutsideWindow ==
  (last.op = "getReceiptValue" /\ last.err = "" /\ ~last.inWindow) =>
    (last.ret = 0 /\ FieldAsBefore)

\* C11: a getReceiptValue call with a total above MAX_VALUE throws 'receipt
\* amount exceeds max 64 bit signed integer' before any command reaches the
\* store, whether or not the nonce has a record, and every record and time
\* to live is as it was; a total of MAX_VALUE is not refused.
C11_OverflowingTotalRejected ==
  [][/\ (last'.op = "getReceiptValue" /\ last'.amount > MAX_VALUE) =>
          /\ last'.step = "validate" /\ last'.err = ERR_RECEIPT_AMOUNT
          /\ receipts' = receipts /\ expiry' = expiry
     /\ (last'.op = "getReceiptValue" /\ last'.amount <= MAX_VALUE) => last'.err = ""
     /\ \A p \in Procs :
          (calls'[p].op = "getReceiptValue" /\ calls'[p].pc = "script") =>
            calls'[p].amount <= MAX_VALUE]_vars

\* A total above MAX_VALUE has just been refused for a nonce whose record
\* holds a watermark, which is still there.
C11_Witness ==
  /\ last.op = "getReceiptValue" /\ last.amount > MAX_VALUE
  /\ last.err = ERR_RECEIPT_AMOUNT
  /\ HExists(receipts, last.id, last.stream) /\ receipts[last.id][last.stream] > 0

\* C10: from one state of the store to the next, no watermark of a record
\* that exists in both decreases.
C10_WatermarkNeverDecreases ==
  [][\A n \in DOMAIN receipts \cap DOMAIN receipts' :
       \A s \in DOMAIN receipts[n] \cap DOMAIN receipts'[n] :
         receipts'[n][s] >= receipts[n][s]]_vars


\* A setReceiptTTL call's HSET leaves the watermark of every stream the
\* record holds.
SetReceiptTTLKeepsWatermarks ==
  \A p \in Procs :
    (calls[p].pc = "idle" /\ calls'[p].op = "setReceiptTTL") =>
      \A s \in StreamIds :
        HExists(receipts, calls'[p].id, s) =>
          /\ HExists(receipts', calls'[p].id, s)
          /\ receipts'[calls'[p].id][s] = receipts[calls'[p].id][s]

\* When a setReceiptTTL call returns, the record exists with the whole
\* receiptTTLSeconds to live.
SetReceiptTTLLeavesRecord ==
  \A p \in Procs :
    (calls[p].op = "setReceiptTTL" /\ calls'[p].pc = "idle") =>
      /\ KeyExists(receipts', calls[p].id)
      /\ calls[p].id \in DOMAIN expiry'
      /\ expiry'[calls[p].id] = receiptTTLSeconds

\* C15: after setReceiptTTL returns, the record exists with its time to live
\* set to receiptTTLSeconds; and on a nonce that has a record it changes
\* nothing but the time to live: the watermark of every stream is kept.
C15_SetReceiptTTLIdempotent ==
  [][SetReceiptTTLKeepsWatermarks /\ SetReceiptTTLLeavesRecord]_vars

C17_ExpiredRecordNotRecreated ==
  [][(/\ last'.op = "getReceiptValue" /\ last'.step = "script"
      /\ ~KeyExists(receipts, last'.id)) =>
       (last'.ret = 0 /\ ~KeyExists(receipts', last'.id))]_vars

\* C18: in every state, every receipt record that exists has a time to live.
C18_EveryRecordExpires == \A n \in DOMAIN receipts : n \in DOMAIN expiry

\* C19: over any sequence of setReceiptTTL calls, getReceiptValue calls and
\* expiries of the record, the deltas returned for a nonce and stream add up
\* to no more than the largest total submitted for them.
C19_DeltasWithinLargestTotal ==
  \A n \in DOMAIN replay, s \in StreamIds : replay[n][s].paid <= replay[n][s].top

\* C20: creditBalance throws 'balance cannot exceed max 64 bit signed integer'
\* only when the stored balance plus the amount exceeds MAX_VALUE, and a call
\* that the transport failed throws the transport's error.
C20_OverflowErrorOnlyOnOverflow ==
  /\ (last.op = "creditBalance" /\ last.err = ERR_BALANCE_OVERFLOW) =>
       last.pre + last.amount > MAX_VALUE
  /\ (last.op = "creditBalance" /\ last.step = "transport") => last.err = ERR_TRANSPORT

(***************************************************************************)
(* Independence of the identifiers                                         *)
(***************************************************************************)

\* Client p takes this step, as a command of its call or as the check that
\* ends it; the method and the identifier of the call.
Acts(p) == calls[p].pc # calls'[p].pc \/ last'.by = p

ActingCall(p) ==
  IF calls'[p].pc # "idle" THEN calls'[p] ELSE IF calls[p].pc # "idle" THEN calls[p] ELSE last'

\* The record of a key (with its time to live), the field of a hash, is in
\* the next state what it is in this one.
SameRecord(store, store2, key) ==
  /\ (key \in DOMAIN store) = (key \in DOMAIN store2)
  /\ key \in DOMAIN store => store2[key] = store[key]

SameField(store, store2, key, field) ==
  /\ HExists(store, key, field) = HExists(store2, key, field)
  /\ HExists(store, key, field) => store2[key][field] = store[key][field]

\* C21: a step of a creditBalance or spendBalance call on one id leaves the
\* record of every other balance id; a step of a setReceiptTTL or
\* getReceiptValue call on one nonce leaves the record, and the time to
\* live, of every other nonce; and a step of a getReceiptValue call for one
\* stream leaves the watermark of every other stream of its nonce.
C21_IdentifiersIndependent ==
  [][\A p \in Procs :
       Acts(p) =>
         LET c == ActingCall(p)
         IN  /\ c.op \in {"creditBalance", "spendBalance"} =>
                  \A b \in BalanceIds \ {c.id} : SameRecord(balances, balances', b)
             /\ c.op \in {"setReceiptTTL", "getReceiptValue"} =>
                  \A n \in Nonces \ {c.id} :
                    SameRecord(receipts, receipts', n) /\ SameRecord(expiry, expiry', n)
             /\ c.op = "getReceiptValue" =>
                  \A s \in StreamIds \ {c.stream} :
                    SameField(receipts, receipts', c.id, s)]_vars

\* A getReceiptValue call on stream "1" of one nonce has just returned a
\* credit and stored its total, while the same nonce holds a watermark of
\* another stream and another nonce holds a watermark of stream "1".
C21_Witness ==
  /\ Ran("getReceiptValue") /\ last.id = "receipt" /\ last.stream = "1" /\ last.ret > 0
  /\ receipts["receipt"]["1"] = last.amount
  /\ HExists(receipts, "receipt", DUMMY) /\ receipts["receipt"][DUMMY] > 0
  /\ HExists(receipts, "other", "1") /\ receipts["other"]["1"] > 0

(***************************************************************************)
(* The proxy registry and the other records                                *)
(***************************************************************************)

\* The step is a createProxy, getPointer or deleteProxy call.
ProxyCall == last'.op \in {"createProxy", "getPointer", "deleteProxy"}

\* No proxy registry call creates, changes or removes a balance record ...
ProxyCallsLeaveBalances == ProxyCall => balances' = balances

\* ... or a receipt record or its time to live,
ProxyCallsLeaveReceipts == ProxyCall => (receipts' = receipts /\ expiry' = expiry)

\* ... and getPointer returns nothing but a URL that createProxy stored.
ProxyCallsRevealNothing ==
  (last'.op = "getPointer" /\ last'.err = "") => last'.id \in DOMAIN proxies

\* C22: no createProxy, getPointer or deleteProxy call, whatever string it is
\* given, creates, changes, removes or returns a balance record or a receipt
\* record.
C22_ProxyCallsLeaveOtherRecords ==
  [][ProxyCallsLeaveBalances /\ ProxyCallsLeaveReceipts /\ ProxyCallsRevealNothing]_vars

====
